---- MODULE Spec2Model ----
(***************************************************************************)
(* tinyvote: the voting layer (node, request, vote, preprocess, reveal)    *)
(* over the tinynmc sum-of-products primitive.                             *)
(*                                                                         *)
(* Python objects live in a heap of references, so that aliasing between   *)
(* nodes is visible.  Field elements are residues modulo Modulus.  The     *)
(* library's field is the 32-bit prime 4215209819; the model uses a small  *)
(* prime so that products stay inside TLC's integers.  What depends on the *)
(* size of the field is stated relative to Modulus.                        *)
(***************************************************************************)
EXTENDS Integers, Sequences, FiniteSets, TLC

\* ------------------------------------------------------------- bounds
MaxNodes == 2
MaxVotes == 3
MaxChoices == 2
MaxSeed == 2

\* ------------------------------------------------- values of the program
\* The field modulus of the primitive (scaled, see above).
Modulus == 5
\* Python's None in the three node fields.
None == -1

Ok(v) == [ok |-> TRUE, val |-> v]
\* An uncaught Python exception (TypeError, IndexError, KeyError).
Err == [ok |-> FALSE, val |-> <<>>]

RECURSIVE bit_length(_)
bit_length(x) == IF x <= 0 THEN 0 ELSE 1 + bit_length(x \div 2)

RECURSIVE Pow2(_)
Pow2(k) == IF k <= 0 THEN 1 ELSE 2 * Pow2(k - 1)

RECURSIVE FieldProd(_)
FieldProd(s) == IF Len(s) = 0 THEN 1 ELSE (Head(s) * FieldProd(Tail(s))) % Modulus

RECURSIVE FieldSum(_)
FieldSum(s) == IF Len(s) = 0 THEN 0 ELSE (Head(s) + FieldSum(Tail(s))) % Modulus

FieldInv(a) == CHOOSE x \in 1..(Modulus - 1) : (a * x) % Modulus = 1

\* ---------------------------------------------------- the primitive
\* A sub-instance: tinynmc.node().  Before preprocessing it holds nothing.
NmcNode == [pre |-> FALSE, masks |-> <<>>, share |-> 0]

\* The random draws of the primitive's preprocessing, as a function of a seed.
NmcMaskDraw(seed, n, j) == 1 + ((seed + n + 2 * j) % (Modulus - 1))
NmcShareDraw(seed, n) == (seed * n + 1) % Modulus

\* tinynmc.preprocess(signature, nodes): multiplicative masks for every
\* factor of the single term, and an additive sharing among the nodes of the
\* inverse of the product of all the masks.  The states of the sub-instances,
\* in the order given.
NmcPreprocess(signature, count, seed) ==
    LET q == signature[1]
        mk(n) == [j \in 0..(q - 1) |-> NmcMaskDraw(seed, n, j)]
        all == FieldProd([x \in 1..(count * q) |->
                   NmcMaskDraw(seed, 1 + ((x - 1) \div q), (x - 1) % q)])
        rest == FieldSum([n \in 1..(count - 1) |-> NmcShareDraw(seed, n)])
        last == (FieldInv(all) + Modulus - rest) % Modulus
    IN  [n \in 1..count |->
            [pre |-> TRUE, masks |-> mk(n),
             share |-> IF n < count THEN NmcShareDraw(seed, n) ELSE last]]

\* tinynmc.node.masks(sub, request): the mask of every coordinate asked for.
NmcMasks(sub, req) ==
    LET coords == {req[k] : k \in DOMAIN req}
    IN  IF ~sub.pre \/ \E c \in coords : c[1] # 0 \/ c[2] \notin DOMAIN sub.masks
        THEN Err
        ELSE Ok([c \in coords |-> sub.masks[c[2]]])

\* tinynmc.masked_factors(coordinate_to_value, masks).
NmcMaskedFactors(c2v, ms) ==
    [c \in DOMAIN c2v |->
        (c2v[c] * FieldProd([m \in 1..Len(ms) |-> ms[m][c]])) % Modulus]

\* dict.update over the batch: a later entry replaces an earlier one.
RECURSIVE NmcMerge(_)
NmcMerge(batch) ==
    IF Len(batch) = 0 THEN <<>>
    ELSE LET front == NmcMerge(SubSeq(batch, 1, Len(batch) - 1))
             back == batch[Len(batch)]
         IN  [c \in DOMAIN front \cup DOMAIN back |->
                 IF c \in DOMAIN back THEN back[c] ELSE front[c]]

\* sub.compute(signature, masked values): this node's additive share of the
\* product of the factors of the term.
NmcCompute(sub, signature, batch) ==
    LET c2v == NmcMerge(batch)
        q == signature[1]
    IN  IF ~sub.pre \/ \E j \in 0..(q - 1) : <<0, j>> \notin DOMAIN c2v
        THEN Err
        ELSE Ok((sub.share * FieldProd([x \in 1..q |-> c2v[<<0, x - 1>>]])) % Modulus)

\* ------------------------------------------------------------- state
VARIABLES
    node,      \* the node objects: _signature, _choices, _nodes (references)
    sigs,      \* heap: signature lists
    arrs,      \* heap: lists of sub-instances
    subs,      \* heap: sub-instances of the primitive
    nextRef,   \* the next fresh reference
    pc,        \* where the caller is
    pre,       \* arguments and locals of the current (last) preprocess call
    curId,     \* identifier of the request being served
    got,       \* masks collected for it, one list per node
    ids,       \* identifiers of the votes cast
    cast,      \* choices of the votes cast
    ballots,   \* the votes broadcast
    shares,    \* outcome of every node so far
    tally,     \* what reveal returned
    ret        \* the last single call made outside the run, and its result

heap == <<node, sigs, arrs, subs, nextRef>>
client == <<curId, got, ids, cast, ballots, shares, tally>>
vars == <<node, sigs, arrs, subs, nextRef, pc, pre,
          curId, got, ids, cast, ballots, shares, tally, ret>>

N == Len(node)
NoCall == [op |-> "none", n |-> 0, arg |-> <<>>, ok |-> TRUE, val |-> <<>>]

\* ------------------------------------------------------ tinyvote.node
\* node.__init__
NewNode == [signature |-> None, choices |-> None, nodes |-> None]

\* request.__init__
request(identifier) == << <<0, identifier>> >>

\* A list of results, or the first exception among them.
Collect(rs) ==
    IF \E k \in DOMAIN rs : ~rs[k].ok THEN Err ELSE Ok([k \in DOMAIN rs |-> rs[k].val])

\* node.masks
masks(n, req) ==
    IF node[n].choices = None THEN Err
    ELSE Collect([i \in 1..node[n].choices |->
             IF node[n].nodes = None \/ i > Len(arrs[node[n].nodes]) THEN Err
             ELSE NmcMasks(subs[arrs[node[n].nodes][i]], req)])

\* A mask is handed out once: the call removes what it returns.
masks_heap_once(req) ==
    [r \in DOMAIN subs |->
        [subs[r] EXCEPT !.masks =
            [j \in DOMAIN subs[r].masks \ {req[k][2] : k \in DOMAIN req} |->
                subs[r].masks[j]]]]

\* The sub-instances after node.masks(request): the call assigns nothing.
masks_heap(req) == subs

\* Entry i is computed from the votes' entries of the mirrored slot.
outcome_crossed(n, vs) ==
    IF Len(vs) = 0 THEN Err
    ELSE Collect([i \in 1..Len(vs[1]) |->
             IF node[n].nodes = None \/ i > Len(arrs[node[n].nodes])
                 \/ \E v \in 1..Len(vs) : Len(vs[1]) > Len(vs[v])
             THEN Err
             ELSE NmcCompute(subs[arrs[node[n].nodes][i]], sigs[node[n].signature],
                             [v \in 1..Len(vs) |-> vs[v][Len(vs[1]) + 1 - i]])])

\* node.outcome
outcome(n, vs) ==
    IF Len(vs) = 0 THEN Err
    ELSE Collect([i \in 1..Len(vs[1]) |->
             IF node[n].nodes = None \/ i > Len(arrs[node[n].nodes])
                 \/ \E v \in 1..Len(vs) : i > Len(vs[v])
             THEN Err
             ELSE NmcCompute(subs[arrs[node[n].nodes][i]], sigs[node[n].signature],
                             [v \in 1..Len(vs) |-> vs[v][i]])])

\* Marks slot choice - 1: the comparison is off by one.
vote_shifted(ms, choice) ==
    Collect([p \in 1..Len(ms[1]) |->
        Ok(NmcMaskedFactors(
            ((CHOOSE c \in DOMAIN ms[1][p] : TRUE) :> (IF p = choice THEN 2 ELSE 1)),
            [m \in 1..Len(ms) |-> ms[m][p]]))])

\* Marks slot choice % choices: a negative choice counts from the end, as a
\* Python index would.
vote_wraps(ms, choice) ==
    Collect([p \in 1..Len(ms[1]) |->
        Ok(NmcMaskedFactors(
            ((CHOOSE c \in DOMAIN ms[1][p] : TRUE) :>
                (IF p - 1 = choice % Len(ms[1]) THEN 2 ELSE 1)),
            [m \in 1..Len(ms) |-> ms[m][p]]))])

\* vote.__init__ : slot i (from 0) is at position i + 1.
vote(ms, choice) ==
    IF Len(ms) = 0 THEN Err
    ELSE Collect([p \in 1..Len(ms[1]) |->
             IF \E m \in 1..Len(ms) : p > Len(ms[m]) THEN Err
             ELSE LET masks_i == [m \in 1..Len(ms) |-> ms[m][p]]
                  IN  IF DOMAIN masks_i[1] = {} THEN Err
                      ELSE LET key == CHOOSE c \in DOMAIN masks_i[1] : TRUE
                           IN  IF \E m \in 1..Len(ms) : key \notin DOMAIN masks_i[m]
                               THEN Err
                               ELSE Ok(NmcMaskedFactors(
                                        (key :> (IF p - 1 = choice THEN 2 ELSE 1)),
                                        masks_i))])

\* Decodes bit_length() without subtracting one.
reveal_bits(ss) ==
    Collect([i \in 1..Len(ss[1]) |->
        Ok(bit_length(FieldSum([s \in 1..Len(ss) |-> ss[s][i]])))])

\* reveal
reveal(ss) ==
    IF Len(ss) = 0 THEN Err
    ELSE Collect([i \in 1..Len(ss[1]) |->
             IF \E s \in 1..Len(ss) : i > Len(ss[s]) THEN Err
             ELSE Ok(bit_length(FieldSum([s \in 1..Len(ss) |-> ss[s][i]])) - 1)])

\* ------------------------------------------------------------- heap
EmptyMap == [x \in {} |-> 0]
Keep(f, S) == [x \in DOMAIN f \cap S |-> f[x]]
FieldsOf(nd, f) == {nd[n][f] : n \in 1..Len(nd)} \ {None}

\* Objects no longer referenced are gone (reference counting).
LiveSigs(nd, held) == FieldsOf(nd, "signature") \cup held
LiveArrs(nd) == FieldsOf(nd, "nodes")
LiveSubs(nd, ar) ==
    UNION {{ar[a][i] : i \in 1..Len(ar[a])} : a \in LiveArrs(nd) \cap DOMAIN ar}

\* References are compared for identity only.  When preprocess returns, the
\* heap is renumbered from 1, so that heaps of one shape are one state.
Rebase(r, d) == IF r = None THEN None ELSE r - d
RebaseMap(f, d) == [r \in {x - d : x \in DOMAIN f} |-> f[r + d]]
RebaseNodes(nd, d) ==
    [n \in 1..Len(nd) |-> [signature |-> Rebase(nd[n].signature, d),
                           choices |-> nd[n].choices,
                           nodes |-> Rebase(nd[n].nodes, d)]]
RebaseArrs(ar, d) ==
    [r \in {x - d : x \in DOMAIN ar} |-> [i \in 1..Len(ar[r + d]) |-> ar[r + d][i] - d]]
RebaseLog(log, d) ==
    [e \in 1..Len(log) |->
        [slot |-> log[e].slot, subs |-> [n \in 1..Len(log[e].subs) |-> log[e].subs[n] - d]]]

Init ==
    /\ node \in {[n \in 1..k |-> NewNode] : k \in 1..MaxNodes}
    /\ sigs = EmptyMap /\ arrs = EmptyMap /\ subs = EmptyMap
    /\ nextRef = 1
    /\ pc = "idle"
    /\ pre = [votes |-> 0, choices |-> 0, seed |-> 0, sig |-> None, start |-> 1,
              k |-> 1, i |-> 1, log |-> <<>>]
    /\ curId = None /\ got = <<>> /\ ids = <<>> /\ cast = <<>>
    /\ ballots = <<>> /\ shares = <<>> /\ tally = <<>>
    /\ ret = NoCall

InPreprocess == pc \in {"init", "joint"}

\* ------------------------------------------------------- preprocess
\* Where preprocess stands after its first loop has handled node k, and after
\* its second loop has handled slot i.
AfterInit(k, choices) ==
    IF k < N THEN "init" ELSE IF choices > 0 THEN "joint" ELSE "voting"
AfterJoint(i, choices) == IF i < choices THEN "joint" ELSE "voting"

\* The state a step of preprocess leaves: as computed, or renumbered on return.
Leave(to, nd, sg, ar, sb, nr, pr) ==
    LET d == IF to = "voting" THEN pr.start - 1 ELSE 0
    IN  /\ pc' = to
        /\ node' = RebaseNodes(nd, d)
        /\ sigs' = RebaseMap(sg, d)
        /\ arrs' = RebaseArrs(ar, d)
        /\ subs' = RebaseMap(sb, d)
        /\ nextRef' = nr - d
        /\ pre' = [pr EXCEPT !.sig = @ - d, !.start = @ - d, !.log = RebaseLog(@, d)]

\* preprocess, entry: signature = [votes].  The seed stands for the random
\* draws the primitive makes during this call.  A round is set up before any
\* run, and again once a run has ended and its data is dropped.
PreprocessCall(votes, choices, seed) ==
    /\ pc = "idle"
    /\ sigs' = (nextRef :> <<votes>>) @@ sigs
    /\ nextRef' = nextRef + 1
    /\ pre' = [votes |-> votes, choices |-> choices, seed |-> seed, sig |-> nextRef,
               start |-> nextRef, k |-> 1, i |-> 1, log |-> <<>>]
    /\ pc' = "init"
    /\ curId' = None /\ got' = <<>> /\ ids' = <<>> /\ cast' = <<>>
    /\ ballots' = <<>> /\ shares' = <<>> /\ tally' = <<>>
    /\ ret' = NoCall
    /\ UNCHANGED <<node, arrs, subs>>

\* The node object after the body of the first loop.
InitNode(sig, choices, arr) == [signature |-> sig, choices |-> choices, nodes |-> arr]

\* The list [tinynmc.node() for _ in range(choices)], allocated after ref.
FreshSubs(ref, choices) == [i \in 1..choices |-> ref + i]

\* preprocess, first loop: one node.
PreInit ==
    /\ pc = "init"
    /\ LET k == pre.k
           arr == nextRef
           fresh == FreshSubs(arr, pre.choices)
           nd == [node EXCEPT ![k] = InitNode(pre.sig, pre.choices, arr)]
           ar == Keep((arr :> fresh) @@ arrs, LiveArrs(nd))
           sb == Keep([r \in {fresh[i] : i \in 1..Len(fresh)} |-> NmcNode] @@ subs,
                      LiveSubs(nd, ar))
           sg == Keep(sigs, LiveSigs(nd, {pre.sig}))
       IN  Leave(AfterInit(k, pre.choices), nd, sg, ar, sb,
                 nextRef + 1 + pre.choices, [pre EXCEPT !.k = k + 1])
    /\ UNCHANGED <<client, ret>>

\* The nodes taken in reverse order.
JointSubs_reversed(i) == [n \in 1..N |-> arrs[node[N + 1 - n].nodes][i]]

\* [node_._nodes[i] for node_ in nodes], slot i counted from 1.
JointSubs(i) == [n \in 1..N |-> arrs[node[n].nodes][i]]

\* preprocess, second loop: one slot.
PreJoint ==
    /\ pc = "joint"
    /\ LET i == pre.i
           refs == JointSubs(i)
           st == NmcPreprocess(sigs[pre.sig], Len(refs), pre.seed + i)
           sb == [r \in DOMAIN subs |->
                    IF \E n \in 1..Len(refs) : refs[n] = r
                    THEN st[CHOOSE n \in 1..Len(refs) : refs[n] = r]
                    ELSE subs[r]]
       IN  Leave(AfterJoint(i, pre.choices), node, sigs, arrs, sb, nextRef,
                 [pre EXCEPT !.i = i + 1,
                             !.log = Append(@, [slot |-> i, subs |-> refs])])
    /\ UNCHANGED <<client, ret>>

\* ------------------------------------------------------- the run
\* masks = [node.masks(request(identifier)) for node in nodes]
CollectMasks(identifier) ==
    /\ pc = "voting" /\ got = <<>>
    /\ Len(ballots) < pre.votes
    /\ LET r == Collect([n \in 1..N |-> masks(n, request(identifier))])
       IN  IF r.ok
           THEN /\ got' = r.val /\ curId' = identifier /\ pc' = pc
           ELSE /\ got' = <<>> /\ curId' = None /\ pc' = "failed"
    /\ subs' = masks_heap(request(identifier))
    /\ ret' = NoCall
    /\ UNCHANGED <<node, sigs, arrs, nextRef, pre, ids, cast, ballots, shares, tally>>

\* vote(masks, choice), broadcast.
CastVote(choice) ==
    /\ pc = "voting" /\ got # <<>>
    /\ LET r == vote(got, choice)
       IN  IF r.ok
           THEN /\ ballots' = Append(ballots, r.val)
                /\ ids' = Append(ids, curId)
                /\ cast' = Append(cast, choice)
                /\ pc' = pc
           ELSE /\ UNCHANGED <<ballots, ids, cast>> /\ pc' = "failed"
    /\ got' = <<>> /\ curId' = None
    /\ ret' = [NoCall EXCEPT !.op = "vote", !.ok = vote(got, choice).ok]
    /\ UNCHANGED <<heap, pre, shares, tally>>

\* node.outcome(votes) on the next node.
Outcome ==
    /\ pc \in {"voting", "tallying"} /\ got = <<>>
    /\ Len(shares) < N
    /\ LET r == outcome(Len(shares) + 1, ballots)
       IN  IF r.ok
           THEN /\ shares' = Append(shares, r.val) /\ pc' = "tallying"
           ELSE /\ shares' = shares /\ pc' = "failed"
    /\ ret' = NoCall
    /\ UNCHANGED <<heap, pre, curId, got, ids, cast, ballots, tally>>

\* reveal(shares) over the shares of all the nodes.
Reveal ==
    /\ pc = "tallying" /\ Len(shares) = N
    /\ LET r == reveal(shares)
       IN  IF r.ok
           THEN /\ tally' = r.val /\ pc' = "done"
           ELSE /\ tally' = tally /\ pc' = "failed"
    /\ ret' = NoCall
    /\ UNCHANGED <<heap, pre, curId, got, ids, cast, ballots, shares>>

\* The caller drops the data of a run that has ended; the nodes stay as they are.
Discard ==
    /\ pc \in {"done", "failed"}
    /\ pc' = "idle"
    /\ curId' = None /\ got' = <<>> /\ ids' = <<>> /\ cast' = <<>>
    /\ ballots' = <<>> /\ shares' = <<>> /\ tally' = <<>>
    /\ ret' = NoCall
    /\ UNCHANGED <<heap, pre>>

\* The identifiers a voter may use.  The first voter takes the first or the
\* last coordinate of the signature, or the one past the last; the others
\* follow it cyclically, and the last voter may also repeat the first voter's.
Identifiers ==
    IF ids = <<>> THEN {0, pre.votes - 1, pre.votes}
    ELSE {(ids[1] + Len(ids)) % pre.votes}
             \cup (IF Len(ids) = pre.votes - 1 THEN {ids[1]} ELSE {})
\* The choices a voter may make: the first slot, the last slot, and the value
\* on either side of the range.
Choices == {-1, 0, pre.choices - 1, pre.choices}

Next ==
    \/ \E v \in 0..MaxVotes, c \in 0..MaxChoices, seed \in 1..MaxSeed :
           PreprocessCall(v, c, seed)
    \/ PreInit
    \/ PreJoint
    \/ \E identifier \in Identifiers : CollectMasks(identifier)
    \/ \E choice \in Choices : CastVote(choice)
    \/ Outcome
    \/ Reveal
    \/ Discard

Spec == Init /\ [][Next]_vars

\* ------------------------------------------------- single calls
\* The API called directly, on any node and at any time outside preprocess:
\* the call and what it returned are kept in ret.
CallMasks(n, identifier) ==
    /\ ~InPreprocess /\ got = <<>>
    /\ LET r == masks(n, request(identifier))
       IN  ret' = [op |-> "masks", n |-> n, arg |-> request(identifier),
                   ok |-> r.ok, val |-> r.val]
    /\ subs' = masks_heap(request(identifier))
    /\ UNCHANGED <<node, sigs, arrs, nextRef, pc, pre, client>>

CallOutcome(n, batch) ==
    /\ ~InPreprocess /\ got = <<>>
    /\ LET r == outcome(n, batch)
       IN  ret' = [op |-> "outcome", n |-> n, arg |-> batch, ok |-> r.ok, val |-> r.val]
    /\ UNCHANGED <<heap, pc, pre, client>>

CallReveal(ss) ==
    /\ pc \in {"idle", "done"}
    /\ LET r == reveal(ss)
       IN  ret' = [op |-> "reveal", n |-> 0, arg |-> ss, ok |-> r.ok, val |-> r.val]
    /\ UNCHANGED <<heap, pc, pre, client>>

\* Batches handed to outcome: none, one vote of no entries, the votes
\* broadcast so far, and those with the first vote one entry short or long.
Batches ==
    {<<>>, << <<>> >>}
        \cup (IF ballots = <<>> THEN {} ELSE {ballots})
        \cup (IF ballots = <<>> \/ Len(ballots[1]) = 0 THEN {}
              ELSE {[ballots EXCEPT ![1] = SubSeq(@, 1, Len(@) - 1)],
                    [ballots EXCEPT ![1] = Append(@, @[1])]})

\* Shares handed to reveal: those of the run, and one slot of one or two
\* shares holding any field elements.
RevealInputs ==
    (IF Len(shares) = N THEN {shares} ELSE {})
        \cup {<< <<a>> >> : a \in 0..(Modulus - 1)}
        \cup {<< <<a>>, <<b>> >> : a, b \in 0..(Modulus - 1)}

NextCalls ==
    \/ \E v \in 0..MaxVotes, c \in 0..MaxChoices, seed \in 1..MaxSeed :
           PreprocessCall(v, c, seed)
    \/ PreInit
    \/ PreJoint
    \/ \E identifier \in {Len(ballots)} : CollectMasks(identifier)
    \/ \E choice \in {0, pre.choices - 1} : CastVote(choice)
    \/ Outcome
    \/ Reveal
    \/ Discard
    \/ \E n \in 1..N, identifier \in 0..MaxVotes : CallMasks(n, identifier)
    \/ \E n \in 1..N, batch \in Batches : CallOutcome(n, batch)
    \/ \E ss \in RevealInputs : CallReveal(ss)

SpecCalls == Init /\ [][NextCalls]_vars

\* ------------------------------------------------------------ claims
RECURSIVE SumSeq(_)
SumSeq(s) == IF Len(s) = 0 THEN 0 ELSE Head(s) + SumSeq(Tail(s))

\* The number of votes cast for slot i (from 0).
Count(i) == Cardinality({v \in 1..Len(cast) : cast[v] = i})
ValidChoices == \A v \in 1..Len(cast) : cast[v] \in 0..(pre.choices - 1)
DistinctIds == \A a, b \in 1..Len(ids) : a # b => ids[a] # ids[b]
\* preprocess, one vote per voter, outcome on every node and reveal have run.
CompleteRun == pc = "done" /\ Len(ballots) = pre.votes
\* Every power of two up to 2^votes is a residue of the field as it stands.
FitsField == Pow2(pre.votes) < Modulus

MaskAt(n, p, identifier) == subs[arrs[node[n].nodes][p]].masks[identifier]

\* C4: every vote built has exactly `choices` entries; entry i is the value 2
\* when i is the choice and 1 otherwise, at the coordinate of the request,
\* times the slot-i masks of all the nodes; no choice makes vote raise.
C4_BallotEncoding ==
    /\ ret.op = "vote" => ret.ok
    /\ \A v \in 1..Len(ballots) :
        /\ Len(ballots[v]) = pre.choices
        /\ \A p \in 1..pre.choices :
            /\ DOMAIN ballots[v][p] = {<<0, ids[v]>>}
            /\ ballots[v][p][<<0, ids[v]>>] =
                 ((IF p - 1 = cast[v] THEN 2 ELSE 1)
                    * FieldProd([n \in 1..N |-> MaskAt(n, p, ids[v])])) % Modulus

\* A vote for a negative choice and a vote for a choice past the last slot
\* were built over two slots and two nodes.
C4_Witness ==
    /\ N = 2 /\ pre.choices = 2 /\ ret.op = "vote"
    /\ \E v \in 1..Len(cast) : cast[v] = -1
    /\ \E v \in 1..Len(cast) : cast[v] = pre.choices

C8_PreprocessOrder ==
    pre.sig # None =>
        /\ \A n \in 1..N : n < pre.k =>
            /\ node[n].signature = pre.sig /\ sigs[pre.sig] = <<pre.votes>>
            /\ node[n].choices = pre.choices
            /\ node[n].nodes >= pre.start
            /\ Len(arrs[node[n].nodes]) = pre.choices
            /\ \A i \in 1..pre.choices :
                /\ arrs[node[n].nodes][i] >= pre.start
                /\ subs[arrs[node[n].nodes][i]].pre = (i <= Len(pre.log))
                /\ \A j \in 1..pre.choices : \A m \in 1..N :
                      (m < pre.k /\ arrs[node[m].nodes][j] = arrs[node[n].nodes][i])
                          => (m = n /\ j = i)
        /\ Len(pre.log) > 0 => pre.k = N + 1
        /\ pre.i = Len(pre.log) + 1
        /\ \A e \in 1..Len(pre.log) :
            /\ pre.log[e].slot = e
            /\ pre.log[e].subs = [n \in 1..N |-> arrs[node[n].nodes][e]]
        /\ ~InPreprocess =>
            /\ pre.k = N + 1 /\ Len(pre.log) = pre.choices
            /\ \A a, b \in 1..N :
                /\ sigs[node[a].signature] = sigs[node[b].signature]
                /\ node[a].choices = node[b].choices

\* A second preprocess over two nodes that hold an earlier round's state has
\* run the joint step of the first of its two slots.
C8_Witness ==
    /\ pc = "joint" /\ pre.start > 1 /\ N = 2 /\ pre.choices = 2
    /\ Len(pre.log) = 1

\* C10 as stated: no two distinct nodes hold a reference to one mutable
\* object, be it the signature list, the list of sub-instances or a
\* sub-instance.
C10_NoSharedState ==
    \A a, b \in 1..N : a # b =>
        /\ node[a].signature # None => node[a].signature # node[b].signature
        /\ (node[a].nodes # None /\ node[b].nodes # None) =>
            /\ node[a].nodes # node[b].nodes
            /\ \A i \in 1..Len(arrs[node[a].nodes]) :
                   \A j \in 1..Len(arrs[node[b].nodes]) :
                       arrs[node[a].nodes][i] # arrs[node[b].nodes][j]

\* C3 as stated: reveal never returns a negative count, and returns 0 for a
\* slot whose shares sum to the field element 0.
C3_RevealNonNegative ==
    (ret.op = "reveal" /\ ret.ok) =>
        \A i \in 1..Len(ret.val) :
            /\ ret.val[i] >= 0
            /\ FieldSum([s \in 1..Len(ret.arg) |-> ret.arg[s][i]]) = 0 => ret.val[i] = 0

\* C6 as stated: on a node on which no preprocess has run, every masks call
\* and every outcome call ends in an error.
C6_UninitializedFails ==
    (ret.op \in {"masks", "outcome"} /\ node[ret.n] = NewNode) => ~ret.ok

\* C9 as stated: on a preprocessed node, outcome of a non-empty batch returns
\* exactly `choices` entries, whatever the length of the first vote.
C9_ShareHasChoicesEntries ==
    (ret.op = "outcome" /\ ret.ok /\ node[ret.n].choices # None /\ Len(ret.arg) > 0)
        => Len(ret.val) = node[ret.n].choices

\* Entry i of the share node n returns for a batch: sub-instance i's compute
\* step on the node's signature and the i-th entries of the votes, in order.
SlotShare(n, batch, i) ==
    NmcCompute(subs[arrs[node[n].nodes][i]], sigs[node[n].signature],
               [v \in 1..Len(batch) |-> batch[v][i]]).val

\* C9 amended: on a preprocessed node, outcome of a non-empty batch returns
\* as many entries as the first vote has (`choices` for the votes of a run,
\* none for a first vote of no entries), fails when the first vote has more
\* than `choices` entries, and entry i is sub-instance i's compute step on the
\* node's signature and the i-th entries of the votes in batch order.
C9_ShareShape ==
    /\ (ret.op = "outcome" /\ node[ret.n].choices # None /\ Len(ret.arg) > 0) =>
        /\ Len(ret.arg[1]) = 0 => (ret.ok /\ ret.val = <<>>)
        /\ Len(ret.arg[1]) > node[ret.n].choices => ~ret.ok
        /\ ret.ok =>
            /\ Len(ret.val) = Len(ret.arg[1])
            /\ \A i \in 1..Len(ret.val) : ret.val[i] = SlotShare(ret.n, ret.arg, i)
    /\ \A n \in 1..Len(shares) :
        /\ Len(shares[n]) = pre.choices
        /\ \A i \in 1..pre.choices : shares[n][i] = SlotShare(n, ballots, i)

\* outcome returned a share of two entries for a batch of two votes of two
\* entries, and the run's nodes have computed their shares of it too.
C9_Witness ==
    /\ ret.op = "outcome" /\ ret.ok /\ Len(ret.arg) = 2 /\ Len(ret.arg[1]) = 2
    /\ Len(ret.val) = 2 /\ node[ret.n].choices = 2
    /\ N = 2 /\ Len(shares) = 2 /\ shares[1] # shares[2]

====
